---- MODULE Spec2Model ----
(***************************************************************************)
(* delocate: copy / relink the library dependencies of a tree.             *)
(*                                                                         *)
(* The model follows delocate_path (delocating.py) on a small file system: *)
(* tree_libs scans, delocate_tree_libs plans then executes, copy_recurse   *)
(* closes over the copied libraries with passes of _copy_required.         *)
(* delocate_wheel runs delocate_path on each package of an expanded        *)
(* archive and merges the indices; wheel_libs merges the graphs of the     *)
(* packages (libsana.py).                                                  *)
(*                                                                         *)
(* A path is a sequence of components; an absolute path starts with the    *)
(* component "/".  A reference string (install name) is a path too, and an *)
(* opaque reference is one whose first component begins with "@".  File    *)
(* names are atomic strings, so the tests the code makes on the characters *)
(* of a name (startswith, endswith) are tables over the names in use.      *)
(***************************************************************************)
EXTENDS Naturals, Sequences, FiniteSets, TLC

VARIABLES
    pc,               \* position of the call in delocate_path
    err,              \* "none", or the exception that ended the call at pc
    names,            \* file system: canonical file path -> install names
    dirs,             \* file system: the directories that come and go
    tree_path,        \* argument: the tree to delocate (the root_path)
    lib_path,         \* argument: where the copies go, as the caller spelt it
    copy_filt_func,   \* argument: "None" or "filter_system_libs"
    lib_filt_func,    \* argument: "None" or "_dylibs_only"
    lib_dict,         \* the dependency graph of the last scan
    copied_libs,      \* the copied-libs index
    delocated_libs,   \* delocate_tree_libs: libraries to relink in place
    copied_basenames, \* delocate_tree_libs: basenames planned for copy
    todo,             \* keys the running for loop has not visited yet
    copied2orig,      \* _copy_required: path of a copy -> original library
    in_len,           \* copy_recurse: len(copied_libs) before the pass
    copied_in,        \* history: copied_libs before the pass
    names0,           \* history: names before the call
    dirs0,            \* history: dirs before the call
    rewrites,         \* history: every call of set_install_name
    copies,           \* history: every call of shutil.copy2
    in_place,         \* delocate_wheel: in_wheel == out_wheel
    pkgs,             \* delocate_wheel, wheel_libs: package dirs still to visit
    lib_path_exists,  \* delocate_wheel: exists(lib_path) before delocate_path
    all_copied,       \* delocate_wheel: the merged index
    info_dirs,        \* the archive: how many *.dist-info directories it holds
    recorded,         \* history: rewrite_record has rewritten RECORD
    zipped,           \* history: dir2zip has written out_wheel
    run,              \* history: which call of delocate_wheel on the archive
    wheel_dict        \* wheel_libs: the merged graph (its lib_dict)

\* what only delocate_wheel and wheel_libs read and write
wheel == <<in_place, pkgs, lib_path_exists, all_copied, info_dirs, recorded,
           zipped, run, wheel_dict>>

vars == <<pc, err, names, dirs, tree_path, lib_path, copy_filt_func,
          lib_filt_func, lib_dict, copied_libs, delocated_libs,
          copied_basenames, todo, copied2orig, in_len, copied_in, names0,
          dirs0, rewrites, copies, wheel>>

args == <<tree_path, lib_path, copy_filt_func, lib_filt_func, names0, dirs0>>

\* Bound of the model: how many references the binaries record in all.
MaxRefs == 3

(***************************************************************************)
(* Names and the character tests the code makes on them.                   *)
(***************************************************************************)
\* str.startswith('@') on the first component of a reference
StartsWithAt(c) == c \in {"@loader_path", "@rpath", "@executable_path"}

\* str.startswith('..') on the first component of a relative path
StartsWithDotDot(c) == c \in {"..", "..libs"}

\* str.endswith('.so') or str.endswith('.dylib') on a file name
EndsWithSoOrDylib(c) ==
    c \in {"a.so", "b.so", "funny.dylib", "libX.dylib", "libY.dylib", "libZ.dylib", "libQ.dylib",
           "libM.dylib", "libR.dylib", "libXlink.dylib", "libSystem.dylib"}

(***************************************************************************)
(* os.path on sequences of components.                                     *)
(***************************************************************************)
cwd == <<"/", "w">>

isabs(p) == Len(p) > 0 /\ p[1] = "/"

pjoin(a, b) == IF isabs(b) THEN b ELSE a \o b

basename(p) == p[Len(p)]

dirname(p) == SubSeq(p, 1, Len(p) - 1)

RECURSIVE NormParts(_, _, _)
NormParts(done, rest, rooted) ==
    IF rest = <<>> THEN done
    ELSE LET c == Head(rest)
             n == Len(done)
         IN  IF c = "." THEN NormParts(done, Tail(rest), rooted)
             ELSE IF c = ".."
             THEN IF n > 0 /\ done[n] # ".."
                  THEN NormParts(SubSeq(done, 1, n - 1), Tail(rest), rooted)
                  ELSE IF rooted THEN NormParts(done, Tail(rest), rooted)
                  ELSE NormParts(done \o <<"..">>, Tail(rest), rooted)
             ELSE NormParts(done \o <<c>>, Tail(rest), rooted)

normpath(p) ==
    IF isabs(p) THEN <<"/">> \o NormParts(<<>>, Tail(p), TRUE)
    ELSE LET r == NormParts(<<>>, p, FALSE)
         IN  IF r = <<>> THEN <<".">> ELSE r

abspath(p) == normpath(pjoin(cwd, p))

\* The symbolic links of the file system: link -> what it points at.
Symlinks ==
    (<<"/", "opt", "libXlink.dylib">> :> <<"/", "opt", "libX.dylib">>)
    @@ (<<"/", "lnk">> :> <<"/", "w">>)
    @@ (<<"/", "w", "pkg", "funny.dylib">> :> <<"/", "w", "pkg", "a.so">>)

RECURSIVE Resolve(_, _)
Resolve(done, rest) ==
    IF rest = <<>> THEN done
    ELSE LET c == Head(rest)
             n == Len(done)
         IN  IF c = "." THEN Resolve(done, Tail(rest))
             ELSE IF c = ".."
             THEN Resolve(IF n > 1 THEN SubSeq(done, 1, n - 1) ELSE done,
                          Tail(rest))
             ELSE IF (done \o <<c>>) \in DOMAIN Symlinks
             THEN Resolve(<<"/">>, Tail(Symlinks[done \o <<c>>]) \o Tail(rest))
             ELSE Resolve(done \o <<c>>, Tail(rest))

realpath(p) == Resolve(<<"/">>, Tail(pjoin(cwd, p)))

RECURSIVE CommonLen(_, _)
CommonLen(a, b) ==
    IF a = <<>> \/ b = <<>> \/ Head(a) # Head(b) THEN 0
    ELSE 1 + CommonLen(Tail(a), Tail(b))

relpath(p, start) ==
    LET s   == Tail(abspath(start))
        q   == Tail(abspath(p))
        i   == CommonLen(s, q)
        rel == [k \in 1..(Len(s) - i) |-> ".."] \o SubSeq(q, i + 1, Len(q))
    IN  IF rel = <<>> THEN <<".">> ELSE rel

\* f lies in the directory tree of the canonical directory d
Under(f, d) == Len(f) > Len(d) /\ SubSeq(f, 1, Len(d)) = d

(***************************************************************************)
(* The file system of the model.                                           *)
(***************************************************************************)
PkgDir == <<"/", "w", "pkg">>

A  == <<"/", "w", "pkg", "a.so">>
Y  == <<"/", "w", "pkg", "sub", "libY.dylib">>
Q  == <<"/", "w", "pkg", "..libs", "libQ.dylib">>
X  == <<"/", "opt", "libX.dylib">>
X2 == <<"/", "opt2", "libX.dylib">>
Z  == <<"/", "opt", "libZ.dylib">>
S  == <<"/", "usr", "lib", "libSystem.dylib">>
M  == <<"/", "opt", "libM.dylib">>
H  == <<"/", "w", "pkg", ".dylibs", "sub", "helper">>
B  == <<"/", "w", "pkg2", "b.so">>

Xlink == <<"/", "opt", "libXlink.dylib">>
Yrel  == <<"pkg", "sub", "libY.dylib">>
Rpath == <<"@rpath", "libR.dylib">>
Funny == <<"/", "w", "pkg", "funny.dylib">>

LibDirAbs == <<"/", "w", "pkg", ".dylibs">>

\* The ways a caller spells the library directory.
LibPaths == {LibDirAbs, <<"pkg", ".dylibs">>, <<"/", "lnk", "pkg", ".dylibs">>}

\* Files on disk whatever the input (M is the library that is missing).
BaseFiles == {A, Y, Q, X, X2, Z, S}

\* The references a binary may record: (file, install name).
RefPairs ==
    ({A} \X {X, Xlink, X2, Y, Yrel, Q, Z, S, M, Rpath})
    \cup ({X} \X {Z, M, S, Rpath})
    \cup ({Z} \X {X})
    \cup ({H} \X {Z, X, Xlink, M})

EmptyDict == [k \in {} |-> {}]

DictSet(d, k, v) == [x \in DOMAIN d \cup {k} |-> IF x = k THEN v ELSE d[x]]

exists(p) == realpath(p) \in DOMAIN names \/ realpath(p) \in dirs

(***************************************************************************)
(* tools.py is not part of the sources at hand: set_install_name follows   *)
(* its contract, which fails when the old name is not recorded.            *)
(***************************************************************************)
CanSetInstallName(nm, filename, oldname) ==
    filename \in DOMAIN nm /\ oldname \in nm[filename]

set_install_name(nm, filename, oldname, newname) ==
    [nm EXCEPT ![filename] = (@ \ {oldname}) \cup {newname}]

\* shutil.copy2(src, directory): the copy lands at directory/basename(src)
CopyDest(src, dir) == realpath(pjoin(dir, <<basename(src)>>))

copy2(nm, src, dir) == DictSet(nm, CopyDest(src, dir), nm[src])

(***************************************************************************)
(* libsana.tree_libs                                                       *)
(***************************************************************************)
_dylibs_only(filename) == EndsWithSoOrDylib(basename(filename))

filter_system_libs(libname) ==
    ~ (isabs(libname)
       /\ \/ Len(libname) >= 3 /\ libname[2] = "usr" /\ libname[3] \in {"lib"}
          \/ Len(libname) >= 2 /\ libname[2] \in {"System"})

\* filt_func is None or filt_func(depending_libpath)  (line 52)
ApplyLibFilt(filt, f) == filt = "None" \/ _dylibs_only(f)

\* Mutant: the copy filter is not consulted.
NoCopyFilt(filt, l) == TRUE

\* copy_filt_func is None or copy_filt_func(l)  (lines 169 and 236-238)
ApplyCopyFilt(filt, l) == filt = "None" \/ filter_system_libs(l)

\* Mutant: the scanner canonicalises every reference, the opaque ones too.
LibKeyAlwaysReal(install_name) == realpath(install_name)

\* The key of the graph for a recorded reference (lines 55-56).
LibKey(install_name) ==
    IF StartsWithAt(install_name[1]) THEN install_name
    ELSE realpath(install_name)

\* The regular files that os.walk(start_path) lists (lines 49-50).
RegularFiles(nm, start_path) ==
    { f \in DOMAIN nm : Under(f, realpath(start_path)) }

\* Everything it lists as a file: the symbolic links to files as well.
WalkFiles(nm, start_path) ==
    RegularFiles(nm, start_path)
    \cup { l \in DOMAIN Symlinks : /\ Under(l, realpath(start_path))
                                   /\ Symlinks[l] \in DOMAIN nm }

\* Mutant: the depending file is recorded under the path the walk gave.
DependingAsWalked(path) == path

\* depending_libpath = realpath(pjoin(dirpath, base))  (line 51)
DependingPath(path) == realpath(path)

\* Every (required, depending, install name) met in the files listed.
ScanTriplesOver(nm, listed, filt) ==
    UNION { { <<LibKey(n), DependingPath(g), n>> : n \in nm[realpath(g)] } :
              g \in { h \in listed : ApplyLibFilt(filt, DependingPath(h)) } }

\* A dict of dicts from triples holding one name per (required, depending).
GraphOf(T) ==
    [k \in {t[1] : t \in T} |->
        [d \in {t[2] : t \in {u \in T : u[1] = k}} |->
            (CHOOSE n \in {t[3] : t \in T} : <<k, d, n>> \in T)]]

\* The subsets of the triples that keep one name per (required, depending).
OnePerPair(All) ==
    { U \in SUBSET All :
        \A t \in All :
            Cardinality({u \in U : u[1] = t[1] /\ u[2] = t[2]}) = 1 }

\* The graphs tree_libs may return: when a file records two spellings of one
\* library, the one met last stays (line 58), and the order is the binary's.
GraphsOver(nm, listed, filt) ==
    { GraphOf(T) : T \in OnePerPair(ScanTriplesOver(nm, listed, filt)) }

tree_libs(nm, start_path, filt) ==
    GraphsOver(nm, WalkFiles(nm, start_path), filt)

(***************************************************************************)
(* Python values of the index: delocate_tree_libs stores the scanner's     *)
(* dict (line 80), _copy_required stores a set (line 188).                 *)
(***************************************************************************)
PyDict(f) == [kind |-> "dict", val |-> f]

PySet(s)  == [kind |-> "set", val |-> s]

\* iterating a value yields its keys (dict) or its members (set)
Dependers(v) == IF v.kind = "dict" THEN DOMAIN v.val ELSE v.val

\* The outcomes of "for requiring in deps: set_install_name(requiring, old,
\* new[requiring])" in any order: all rewritten, or the exception of the
\* first file that does not record old, after some of the others were done.
RewriteOutcomes(nm, deps, old, new) ==
    LET good == {d \in deps : CanSetInstallName(nm, d, old)}
        Apply(D) == [f \in DOMAIN nm |->
                        IF f \in D
                        THEN set_install_name(nm, f, old, new[f])[f]
                        ELSE nm[f]]
    IN  IF good = deps
        THEN {[ok |-> TRUE, names |-> Apply(deps), tried |-> deps]}
        ELSE {[ok |-> FALSE, names |-> Apply(D), tried |-> D \cup {b}] :
                 D \in SUBSET good, b \in deps \ good}

\* What the history keeps of the calls of set_install_name in one loop.
RewriteLog(nm, tried, required, old, new, stage) ==
    {[file |-> d, key |-> required, old |-> old,
      recorded |-> lib_dict[required][d], new |-> new[d],
      ok |-> CanSetInstallName(nm, d, old), stage |-> stage] : d \in tried}

\* delocate_path called on its own: the variables of delocate_wheel rest
NoWheel ==
    /\ in_place = TRUE
    /\ pkgs = {}
    /\ lib_path_exists = FALSE
    /\ all_copied = EmptyDict
    /\ info_dirs = 1
    /\ recorded = FALSE
    /\ zipped = FALSE
    /\ run = 1
    /\ wheel_dict = EmptyDict

(***************************************************************************)
(* Init: the arguments of delocate_path and the tree it is called on.      *)
(***************************************************************************)
Init ==
    \E P \in SUBSET RefPairs, lp \in LibPaths, pre \in BOOLEAN,
       cf \in {"None", "filter_system_libs"}, lf \in {"None", "_dylibs_only"} :
        /\ Cardinality(P) <= MaxRefs
        /\ (\E p \in P : p[1] = H) => pre
        /\ names = [f \in BaseFiles \cup (IF pre THEN {H} ELSE {}) |->
                       {p[2] : p \in {q \in P : q[1] = f}}]
        /\ dirs = IF pre THEN {LibDirAbs, LibDirAbs \o <<"sub">>} ELSE {}
        /\ tree_path = PkgDir
        /\ lib_path = lp
        /\ copy_filt_func = cf
        /\ lib_filt_func = lf
        /\ names0 = names
        /\ dirs0 = dirs
        /\ pc = "start"
        /\ err = "none"
        /\ lib_dict = EmptyDict
        /\ copied_libs = EmptyDict
        /\ delocated_libs = {}
        /\ copied_basenames = {}
        /\ todo = {}
        /\ copied2orig = EmptyDict
        /\ in_len = 0
        /\ copied_in = EmptyDict
        /\ rewrites = {}
        /\ copies = {}
        /\ NoWheel

(***************************************************************************)
(* delocate_path, lines 233-238                                            *)
(***************************************************************************)
MakeDirs ==
    /\ pc = "start" /\ err = "none"
    /\ dirs' = IF exists(lib_path) THEN dirs ELSE dirs \cup {realpath(lib_path)}
    /\ pc' = "scan"
    /\ UNCHANGED <<err, names, args, wheel, copied_in, lib_dict, copied_libs,
                   delocated_libs, copied_basenames, todo, copied2orig, in_len,
                   rewrites, copies>>

ScanTree ==
    /\ pc = "scan" /\ err = "none"
    /\ \E g \in tree_libs(names, tree_path, lib_filt_func) :
        /\ lib_dict' = [k \in {x \in DOMAIN g :
                                 ApplyCopyFilt(copy_filt_func, x)} |-> g[k]]
        /\ todo' = DOMAIN lib_dict'
    /\ copied_libs' = EmptyDict
    /\ delocated_libs' = {}
    /\ copied_basenames' = {}
    /\ pc' = "plan"
    /\ UNCHANGED <<err, names, dirs, args, wheel, copied_in, copied2orig,
                   in_len, rewrites, copies>>

(***************************************************************************)
(* delocate_tree_libs(lib_dict, lib_path, tree_path)                       *)
(***************************************************************************)
\* relpath(required, root_path).startswith('..')  (line 72)
NotLocal(required, root_path) ==
    StartsWithDotDot(relpath(required, root_path)[1])

\* Mutant: a single loop that copies each library as soon as it is accepted.
PlanStepCopying ==
    /\ pc = "plan" /\ err = "none"
    /\ \E required \in todo :
        /\ todo' = todo \ {required}
        /\ IF StartsWithAt(required[1])
           THEN UNCHANGED <<err, copied_libs, copied_basenames,
                            delocated_libs, names, copies>>
           ELSE IF NotLocal(required, tree_path)
           THEN IF basename(required) \in copied_basenames
                THEN /\ err' = "PlanConflict"
                     /\ UNCHANGED <<copied_libs, copied_basenames,
                                    delocated_libs, names, copies>>
                ELSE IF ~ exists(required)
                THEN /\ err' = "MissingLibrary"
                     /\ UNCHANGED <<copied_libs, copied_basenames,
                                    delocated_libs, names, copies>>
                ELSE /\ copied_libs' = DictSet(copied_libs, required,
                                               PyDict(lib_dict[required]))
                     /\ copied_basenames' =
                            copied_basenames \cup {basename(required)}
                     /\ names' = copy2(names, required, lib_path)
                     /\ copies' = copies \cup
                            {[src |-> required,
                              dst |-> CopyDest(required, lib_path),
                              stage |-> "tree"]}
                     /\ UNCHANGED <<err, delocated_libs>>
           ELSE /\ delocated_libs' = delocated_libs \cup {required}
                /\ UNCHANGED <<err, copied_libs, copied_basenames, names,
                               copies>>
    /\ UNCHANGED <<pc, dirs, args, wheel, copied_in, lib_dict, copied2orig,
                   in_len, rewrites>>

\* One iteration of the loop that tests for errors (lines 65-83).
PlanStep ==
    /\ pc = "plan" /\ err = "none"
    /\ \E required \in todo :
        /\ todo' = todo \ {required}
        /\ IF StartsWithAt(required[1])
           THEN UNCHANGED <<err, copied_libs, copied_basenames,
                            delocated_libs>>
           ELSE IF NotLocal(required, tree_path)
           THEN IF basename(required) \in copied_basenames
                THEN /\ err' = "PlanConflict"
                     /\ UNCHANGED <<copied_libs, copied_basenames,
                                    delocated_libs>>
                ELSE IF ~ exists(required)
                THEN /\ err' = "MissingLibrary"
                     /\ UNCHANGED <<copied_libs, copied_basenames,
                                    delocated_libs>>
                ELSE /\ copied_libs' = DictSet(copied_libs, required,
                                               PyDict(lib_dict[required]))
                     /\ copied_basenames' =
                            copied_basenames \cup {basename(required)}
                     /\ UNCHANGED <<err, delocated_libs>>
           ELSE /\ delocated_libs' = delocated_libs \cup {required}
                /\ UNCHANGED <<err, copied_libs, copied_basenames>>
    /\ UNCHANGED <<pc, names, dirs, args, wheel, copied_in, lib_dict,
                   copied2orig, in_len, rewrites, copies>>

\* The first loop is over: "Modify in place now" (lines 84-85).
PlanDone ==
    /\ pc = "plan" /\ err = "none" /\ todo = {}
    /\ pc' = "copy"
    /\ todo' = DOMAIN copied_libs
    /\ UNCHANGED <<err, names, dirs, args, wheel, copied_in, lib_dict,
                   copied_libs, delocated_libs, copied_basenames, copied2orig,
                   in_len, rewrites, copies>>

\* '@loader_path/{0}/{1}'.format(relpath(lib_path, dirname(requiring)),
\*                               basename(required))      (lines 89-92)
CopiedName(requiring, required, libdir) ==
    <<"@loader_path">> \o relpath(libdir, dirname(requiring))
                       \o <<basename(required)>>

\* '@loader_path/' + relpath(required, dirname(requiring))  (lines 96-98)
LocalName(requiring, required) ==
    <<"@loader_path">> \o relpath(required, dirname(requiring))

\* One iteration of the loop over copied_libs (lines 85-92).
ExecCopy ==
    /\ pc = "copy" /\ err = "none"
    /\ \E required \in todo :
        LET dst  == CopyDest(required, lib_path)
            nm1  == copy2(names, required, lib_path)
            New  == [d \in DOMAIN lib_dict[required] |->
                        CopiedName(d, required, lib_path)]
        IN  /\ todo' = todo \ {required}
            /\ copies' = copies \cup
                   {[src |-> required, dst |-> dst, stage |-> "tree"]}
            /\ \E o \in RewriteOutcomes(nm1, DOMAIN lib_dict[required],
                                        required, New) :
                /\ names' = o.names
                /\ err' = IF o.ok THEN "none" ELSE "RewriteError"
                /\ rewrites' = rewrites \cup
                       RewriteLog(nm1, o.tried, required, required, New, "tree")
    /\ UNCHANGED <<pc, dirs, args, wheel, copied_in, lib_dict, copied_libs,
                   delocated_libs, copied_basenames, copied2orig, in_len>>

CopyDone ==
    /\ pc = "copy" /\ err = "none" /\ todo = {}
    /\ pc' = "relink"
    /\ todo' = delocated_libs
    /\ UNCHANGED <<err, names, dirs, args, wheel, copied_in, lib_dict,
                   copied_libs, delocated_libs, copied_basenames, copied2orig,
                   in_len, rewrites, copies>>

\* One iteration of the loop over delocated_libs (lines 93-98).
ExecRelink ==
    /\ pc = "relink" /\ err = "none"
    /\ \E required \in todo :
        LET New == [d \in DOMAIN lib_dict[required] |->
                       LocalName(d, required)]
        IN  /\ todo' = todo \ {required}
            /\ \E o \in RewriteOutcomes(names, DOMAIN lib_dict[required],
                                        required, New) :
                /\ names' = o.names
                /\ err' = IF o.ok THEN "none" ELSE "RewriteError"
                /\ rewrites' = rewrites \cup
                       RewriteLog(names, o.tried, required, required, New,
                                  "tree")
    /\ UNCHANGED <<pc, dirs, args, wheel, copied_in, lib_dict, copied_libs,
                   delocated_libs, copied_basenames, copied2orig, in_len,
                   copies>>

\* return copied_libs (line 99); copy_recurse takes it over (lines 131-135).
TreeReturn ==
    /\ pc = "relink" /\ err = "none" /\ todo = {}
    /\ pc' = "recurse"
    /\ UNCHANGED <<err, names, dirs, args, wheel, copied_in, lib_dict,
                   copied_libs, delocated_libs, copied_basenames, todo,
                   copied2orig, in_len, rewrites, copies>>

(***************************************************************************)
(* copy_recurse(lib_path, copy_filt_func, copied) and _copy_required       *)
(***************************************************************************)
\* The dicts of line 167: pjoin(lib_path, basename(c)) -> c for the keys c;
\* one entry per path stays when two keys share a basename.
Copied2Orig(libdir, keys) ==
    { f \in [ {pjoin(libdir, <<basename(c)>>) : c \in keys} -> keys ] :
        \A k \in DOMAIN f : pjoin(libdir, <<basename(f[k])>>) = k }

\* copied2orig.get(r, r)
GetOrSelf(d, r) == IF r \in DOMAIN d THEN d[r] ELSE r

\* Mutant: the loop never sees the fixed point.
LoopDoneNever(n_in, cl) == FALSE

\* Mutant: the loop returns only when a pass left the whole index as it was.
LoopDoneOnSameIndex(n_in, cl) == cl = copied_in

\* done = len(copied_libs) == in_len  (line 139)
LoopDone(n_in, cl) == Cardinality(DOMAIN cl) = n_in

\* '@loader_path/' + required_base  (line 182)
ClosureName(required) == <<"@loader_path", basename(required)>>

\* The head of a pass: lines 137-138 and 165-167.
PassBegin ==
    /\ pc = "recurse" /\ err = "none"
    /\ in_len' = Cardinality(DOMAIN copied_libs)
    /\ copied_in' = copied_libs
    /\ \E g \in tree_libs(names, lib_path, "None") :
        /\ lib_dict' = g
        /\ todo' = DOMAIN g
    /\ \E c2o \in Copied2Orig(lib_path, DOMAIN copied_libs) :
        copied2orig' = c2o
    /\ pc' = "pass"
    /\ UNCHANGED <<err, names, dirs, args, wheel, copied_libs,
                   delocated_libs, copied_basenames, rewrites, copies>>

\* One iteration of the loop of _copy_required (lines 168-190).
PassStep ==
    /\ pc = "pass" /\ err = "none"
    /\ \E required \in todo :
        /\ todo' = todo \ {required}
        /\ IF \/ ~ ApplyCopyFilt(copy_filt_func, required)
              \/ StartsWithAt(required[1])
           THEN UNCHANGED <<err, names, copied_libs, copied2orig, rewrites,
                            copies>>
           ELSE
            LET requirings  == DOMAIN lib_dict[required]
                needs_copy  == required \notin DOMAIN copied_libs
                New         == [d \in requirings |-> ClosureName(required)]
                procd       == {GetOrSelf(copied2orig, r) : r \in requirings}
                dst         == CopyDest(required, lib_path)
            IN  \E o \in RewriteOutcomes(names, requirings, required, New) :
                /\ rewrites' = rewrites \cup
                       RewriteLog(names, o.tried, required, required, New,
                                  "closure")
                /\ IF ~ o.ok
                   THEN /\ err' = "RewriteError"
                        /\ names' = o.names
                        /\ UNCHANGED <<copied_libs, copied2orig, copies>>
                   ELSE IF needs_copy
                   THEN IF required \notin DOMAIN o.names \/ dst = required
                        THEN /\ err' = "CopyError"
                             /\ names' = o.names
                             /\ UNCHANGED <<copied_libs, copied2orig, copies>>
                        ELSE /\ names' = copy2(o.names, required, lib_path)
                             /\ copies' = copies \cup
                                    {[src |-> required, dst |-> dst,
                                      stage |-> "closure"]}
                             /\ copied2orig' =
                                    DictSet(copied2orig,
                                            pjoin(lib_path,
                                                  <<basename(required)>>),
                                            required)
                             /\ copied_libs' =
                                    DictSet(copied_libs, required, PySet(procd))
                             /\ UNCHANGED err
                   ELSE IF copied_libs[required].kind = "dict"
                   THEN \* dict | set raises TypeError (line 190)
                        /\ err' = "TypeError"
                        /\ names' = o.names
                        /\ UNCHANGED <<copied_libs, copied2orig, copies>>
                   ELSE /\ copied_libs' =
                            DictSet(copied_libs, required,
                                    PySet(copied_libs[required].val
                                          \cup procd))
                        /\ names' = o.names
                        /\ UNCHANGED <<err, copied2orig, copies>>
    /\ UNCHANGED <<pc, dirs, args, wheel, copied_in, lib_dict, delocated_libs,
                   copied_basenames, in_len>>

\* The pass is over: line 139, then the loop test or the return of line 140.
PassEnd ==
    /\ pc = "pass" /\ err = "none" /\ todo = {}
    /\ pc' = IF LoopDone(in_len, copied_libs) THEN "done" ELSE "recurse"
    /\ UNCHANGED <<err, names, dirs, args, wheel, copied_in, lib_dict,
                   copied_libs, delocated_libs, copied_basenames, todo,
                   copied2orig, in_len, rewrites, copies>>

Next ==
    \/ MakeDirs
    \/ ScanTree
    \/ PlanStep
    \/ PlanDone
    \/ ExecCopy
    \/ CopyDone
    \/ ExecRelink
    \/ TreeReturn
    \/ PassBegin
    \/ PassStep
    \/ PassEnd

Spec == Init /\ [][Next]_vars

(***************************************************************************)
(* copy_recurse called on its own (lines 102-140): lib_path holds the      *)
(* helper and, when the caller hands over the index of a tree pass, the    *)
(* copy of X that this pass made.                                          *)
(***************************************************************************)
InitRecurse ==
    \E P \in SUBSET {p \in RefPairs : p[1] # A}, lp \in LibPaths,
       seeded \in BOOLEAN, cf \in {"None", "filter_system_libs"} :
        /\ Cardinality(P) <= MaxRefs
        /\ names = [f \in BaseFiles \cup {H}
                          \cup (IF seeded THEN {CopyDest(X, lp)} ELSE {}) |->
                       {p[2] : p \in {q \in P :
                           q[1] = (IF f = CopyDest(X, lp) THEN X ELSE f)}}]
        /\ dirs = {LibDirAbs, LibDirAbs \o <<"sub">>}
        /\ tree_path = PkgDir
        /\ lib_path = lp
        /\ copy_filt_func = cf
        /\ lib_filt_func = "None"
        /\ names0 = names
        /\ dirs0 = dirs
        /\ pc = "recurse"
        /\ err = "none"
        /\ lib_dict = EmptyDict
        /\ copied_libs = IF seeded
                         THEN DictSet(EmptyDict, X, PyDict(A :> X))
                         ELSE EmptyDict
        /\ delocated_libs = {}
        /\ copied_basenames = {}
        /\ todo = {}
        /\ copied2orig = EmptyDict
        /\ in_len = 0
        /\ copied_in = EmptyDict
        /\ rewrites = {}
        /\ copies = {}
        /\ NoWheel

NextRecurse ==
    \/ PassBegin
    \/ PassStep
    \/ PassEnd

\* The loop of copy_recurse is sequential code: it takes its next step.
RecurseSpec == InitRecurse /\ [][NextRecurse]_vars /\ WF_vars(NextRecurse)

(***************************************************************************)
(* delocate_wheel(in_wheel, out_wheel, lib_sdir, lib_filt_func,            *)
(* copy_filt_func), lines 341-366.  tools.zip2dir, tools.dir2zip,          *)
(* tools.find_package_dirs and the context managers of tmpdirs.py are not  *)
(* part of the sources at hand and follow their contracts: the archive is  *)
(* expanded into a fresh directory that becomes the working directory, and *)
(* repacking writes the tree as it stands to out_wheel.                    *)
(***************************************************************************)
find_package_dirs == {<<"pkg">>, <<"pkg2">>}

lib_sdir == <<".dylibs">>

\* The references the binaries of the archive and of the host may record.
WheelRefPairs ==
    ({A} \X {X, Xlink, X2, Y, Z, S, M})
    \cup ({B} \X {X, Z})
    \cup ({X} \X {Z, M})
    \cup ({H} \X {Z})

\* os.listdir(path)
listdir(nm, ds, path) ==
    { basename(x) : x \in { y \in DOMAIN nm \cup ds \cup DOMAIN Symlinks :
                               dirname(y) = realpath(path) } }

\* shutil.rmtree(path) on the directories
rmtree(ds, path) ==
    { x \in ds : x # realpath(path) /\ ~ Under(x, realpath(path)) }

\* Mutant: the directory stays.
KeepLibPath(nm, ds, path) == ds

\* if len(os.listdir(lib_path)) == 0: shutil.rmtree(lib_path)  (359-360)
RemoveIfEmpty(nm, ds, path) ==
    IF listdir(nm, ds, path) = {} THEN rmtree(ds, path) ELSE ds

\* Mutant: no test of the directory that was there.
NoConflict(copied, existed) == FALSE

\* if copied_libs and lib_path_exists  (line 356)
PreexistingConflict(copied, existed) == DOMAIN copied # {} /\ existed

\* a | b on two values of the index: the union of two sets; a set and a
\* dict raise TypeError; two dicts raise TypeError before Python 3.9 and
\* make a dict of the items of both from Python 3.9 on.
PyOr(a, b) ==
    IF a.kind = "set" /\ b.kind = "set"
    THEN {[ok |-> TRUE, val |-> PySet(a.val \cup b.val)]}
    ELSE IF a.kind = "dict" /\ b.kind = "dict"
    THEN {[ok |-> FALSE, val |-> a],
          [ok |-> TRUE, val |-> PyDict(b.val @@ a.val)]}
    ELSE {[ok |-> FALSE, val |-> a]}

\* The outcomes of _merge_lib_dict(d1, d2) (lines 292-298): d1 after the
\* loop, or the TypeError of a key that both hold.
_merge_lib_dict(d1, d2) ==
    LET shared == DOMAIN d1 \cap DOMAIN d2
        Picks  == { f \in [shared -> UNION {PyOr(d1[k], d2[k]) : k \in shared}] :
                      \A k \in shared : f[k] \in PyOr(d1[k], d2[k]) }
    IN  { [ok  |-> \A k \in shared : f[k].ok,
           val |-> [k \in DOMAIN d1 \cup DOMAIN d2 |->
                      IF k \in shared THEN f[k].val
                      ELSE IF k \in DOMAIN d1 THEN d1[k] ELSE d2[k]]] :
          f \in Picks }

\* Mutant: RECORD is rewritten whatever the index holds.
RecordAlways(copied) == TRUE

\* if len(all_copied)  (line 362)
NeedsRecord(copied) == DOMAIN copied # {}

\* if len(all_copied) or not in_place  (line 364)
NeedsZip(copied, inplace) == DOMAIN copied # {} \/ ~ inplace

\* The state after zip2dir (line 349): the tree of the archive under the
\* working directory, the host libraries outside it.
InitWheel ==
    \E P \in SUBSET WheelRefPairs, pre \in {"absent", "empty", "helper"},
       ip \in BOOLEAN, n \in {1, 2},
       cf \in {"None", "filter_system_libs"}, lf \in {"None", "_dylibs_only"} :
        /\ Cardinality(P) <= MaxRefs
        /\ (\E p \in P : p[1] = H) => pre = "helper"
        /\ names = [f \in BaseFiles \cup {B}
                          \cup (IF pre = "helper" THEN {H} ELSE {}) |->
                       {p[2] : p \in {q \in P : q[1] = f}}]
        /\ dirs = CASE pre = "absent" -> {}
                   [] pre = "empty"  -> {LibDirAbs}
                   [] pre = "helper" -> {LibDirAbs, LibDirAbs \o <<"sub">>}
        /\ tree_path = <<".">>
        /\ lib_path = <<".">>
        /\ copy_filt_func = cf
        /\ lib_filt_func = lf
        /\ names0 = names
        /\ dirs0 = dirs
        /\ pc = "packages"
        /\ err = "none"
        /\ lib_dict = EmptyDict
        /\ copied_libs = EmptyDict
        /\ delocated_libs = {}
        /\ copied_basenames = {}
        /\ todo = {}
        /\ copied2orig = EmptyDict
        /\ in_len = 0
        /\ copied_in = EmptyDict
        /\ rewrites = {}
        /\ copies = {}
        /\ in_place = ip
        /\ pkgs = find_package_dirs
        /\ lib_path_exists = FALSE
        /\ all_copied = EmptyDict
        /\ info_dirs = n
        /\ recorded = FALSE
        /\ zipped = FALSE
        /\ run = 1
        /\ wheel_dict = EmptyDict

\* for package_path in find_package_dirs('.'), up to the call of
\* delocate_path (lines 351-355)
WheelNextPackage ==
    /\ pc = "packages" /\ err = "none"
    /\ \E package_path \in pkgs :
        /\ pkgs' = pkgs \ {package_path}
        /\ tree_path' = package_path
        /\ lib_path' = pjoin(package_path, lib_sdir)
    /\ lib_path_exists' = (realpath(lib_path') \in DOMAIN names
                             \/ realpath(lib_path') \in dirs)
    /\ pc' = "start"
    /\ UNCHANGED <<err, names, dirs, copy_filt_func, lib_filt_func, names0,
                   dirs0, copied_in, lib_dict, copied_libs, delocated_libs,
                   copied_basenames, todo, copied2orig, in_len, rewrites,
                   copies, in_place, all_copied, info_dirs, recorded, zipped,
                   run, wheel_dict>>

\* delocate_path has returned copied_libs: lines 356-361
WheelAfterPath ==
    /\ pc = "done" /\ err = "none"
    /\ IF PreexistingConflict(copied_libs, lib_path_exists)
       THEN /\ err' = "PreexistingTarget"
            /\ UNCHANGED <<pc, dirs, all_copied>>
       ELSE /\ dirs' = RemoveIfEmpty(names, dirs, lib_path)
            /\ \E o \in _merge_lib_dict(all_copied, copied_libs) :
                IF o.ok
                THEN /\ all_copied' = o.val
                     /\ pc' = "packages"
                     /\ UNCHANGED err
                ELSE /\ err' = "TypeError"
                     /\ UNCHANGED <<pc, all_copied>>
    /\ UNCHANGED <<names, args, copied_in, lib_dict, copied_libs,
                   delocated_libs, copied_basenames, todo, copied2orig,
                   in_len, rewrites, copies, in_place, pkgs, lib_path_exists,
                   info_dirs, recorded, zipped, run, wheel_dict>>

\* Mutant: the archive is written before RECORD is dealt with.
WheelRecordAfterZip ==
    /\ pc = "packages" /\ err = "none" /\ pkgs = {}
    /\ zipped' = NeedsZip(all_copied, in_place)
    /\ IF NeedsRecord(all_copied)
       THEN IF info_dirs # 1
            THEN /\ err' = "ManifestShapeError"
                 /\ UNCHANGED <<pc, recorded>>
            ELSE /\ recorded' = TRUE
                 /\ pc' = "zip"
                 /\ UNCHANGED err
       ELSE /\ pc' = "zip"
            /\ UNCHANGED <<err, recorded>>
    /\ UNCHANGED <<names, dirs, args, copied_in, lib_dict, copied_libs,
                   delocated_libs, copied_basenames, todo, copied2orig,
                   in_len, rewrites, copies, in_place, pkgs, lib_path_exists,
                   all_copied, info_dirs, run, wheel_dict>>

\* if len(all_copied): rewrite_record('wheel')  (lines 362-363); the
\* function raises unless the tree holds one *.dist-info (lines 255-257)
WheelRecord ==
    /\ pc = "packages" /\ err = "none" /\ pkgs = {}
    /\ IF NeedsRecord(all_copied)
       THEN IF info_dirs # 1
            THEN /\ err' = "ManifestShapeError"
                 /\ UNCHANGED <<pc, recorded>>
            ELSE /\ recorded' = TRUE
                 /\ pc' = "zip"
                 /\ UNCHANGED err
       ELSE /\ pc' = "zip"
            /\ UNCHANGED <<err, recorded>>
    /\ UNCHANGED <<names, dirs, args, copied_in, lib_dict, copied_libs,
                   delocated_libs, copied_basenames, todo, copied2orig,
                   in_len, rewrites, copies, in_place, pkgs, lib_path_exists,
                   all_copied, info_dirs, zipped, run, wheel_dict>>

\* if len(all_copied) or not in_place: dir2zip('wheel', out_wheel); then
\* return all_copied  (lines 364-366)
WheelZip ==
    /\ pc = "zip" /\ err = "none"
    /\ zipped' = NeedsZip(all_copied, in_place)
    /\ pc' = "wheel_done"
    /\ UNCHANGED <<err, names, dirs, args, copied_in, lib_dict, copied_libs,
                   delocated_libs, copied_basenames, todo, copied2orig,
                   in_len, rewrites, copies, in_place, pkgs, lib_path_exists,
                   all_copied, info_dirs, recorded, run, wheel_dict>>

\* The caller runs delocate_wheel once more, in place, on the archive the
\* first call left: the tree it wrote, or the archive it did not touch.
WheelRerun ==
    /\ pc = "wheel_done" /\ err = "none" /\ run = 1
    /\ names' = IF zipped THEN names ELSE names0
    /\ dirs' = IF zipped THEN dirs ELSE dirs0
    /\ names0' = names'
    /\ dirs0' = dirs'
    /\ in_place' = TRUE
    /\ pkgs' = find_package_dirs
    /\ all_copied' = EmptyDict
    /\ recorded' = FALSE
    /\ zipped' = FALSE
    /\ run' = 2
    /\ rewrites' = {}
    /\ copies' = {}
    /\ lib_dict' = EmptyDict
    /\ copied_libs' = EmptyDict
    /\ copied_in' = EmptyDict
    /\ copied2orig' = EmptyDict
    /\ delocated_libs' = {}
    /\ copied_basenames' = {}
    /\ in_len' = 0
    /\ pc' = "packages"
    /\ UNCHANGED <<err, tree_path, lib_path, copy_filt_func, lib_filt_func,
                   todo, lib_path_exists, info_dirs, wheel_dict>>

NextWheel ==
    \/ WheelNextPackage
    \/ MakeDirs
    \/ ScanTree
    \/ PlanStep
    \/ PlanDone
    \/ ExecCopy
    \/ CopyDone
    \/ ExecRelink
    \/ TreeReturn
    \/ PassBegin
    \/ PassStep
    \/ PassEnd
    \/ WheelAfterPath
    \/ WheelRecord
    \/ WheelZip
    \/ WheelRerun

WheelSpec == InitWheel /\ [][NextWheel]_vars

(***************************************************************************)
(* libsana.wheel_libs(wheel_fname, lib_filt_func), lines 83-94.  The       *)
(* archive is expanded in the working directory; tools.find_package_dirs   *)
(* is not part of the sources at hand and follows its contract: the        *)
(* directories of the root that are packages, here pkg and pkg2.           *)
(***************************************************************************)
\* The references the binaries of the archive may record.
WheelLibsRefPairs ==
    ({A} \X {X, Xlink, Y, Yrel, S, Rpath})
    \cup ({B} \X {X, Xlink, Z, S, Rpath})
    \cup ({H} \X {Z})

InitWheelLibs ==
    \E P \in SUBSET WheelLibsRefPairs, lf \in {"None", "_dylibs_only"} :
        /\ Cardinality(P) <= MaxRefs
        /\ names = [f \in BaseFiles \cup {B, H} |->
                       {p[2] : p \in {q \in P : q[1] = f}}]
        /\ dirs = {LibDirAbs, LibDirAbs \o <<"sub">>}
        /\ tree_path = <<".">>
        /\ lib_path = LibDirAbs
        /\ copy_filt_func = "None"
        /\ lib_filt_func = lf
        /\ names0 = names
        /\ dirs0 = dirs
        /\ pc = "wl_loop"
        /\ err = "none"
        /\ lib_dict = EmptyDict
        /\ copied_libs = EmptyDict
        /\ delocated_libs = {}
        /\ copied_basenames = {}
        /\ todo = {}
        /\ copied2orig = EmptyDict
        /\ in_len = 0
        /\ copied_in = EmptyDict
        /\ rewrites = {}
        /\ copies = {}
        /\ in_place = TRUE
        /\ pkgs = find_package_dirs
        /\ lib_path_exists = FALSE
        /\ all_copied = EmptyDict
        /\ info_dirs = 1
        /\ recorded = FALSE
        /\ zipped = FALSE
        /\ run = 1
        /\ wheel_dict = EmptyDict

\* for package_path in ...: pkg_lib_dict = tree_libs(package_path,
\* lib_filt_func)  (lines 87-88); lib_dict holds pkg_lib_dict
WheelLibsScan ==
    /\ pc = "wl_loop" /\ err = "none"
    /\ \E package_path \in pkgs :
        /\ pkgs' = pkgs \ {package_path}
        /\ tree_path' = package_path
        /\ \E g \in tree_libs(names, package_path, lib_filt_func) :
            /\ lib_dict' = g
            /\ todo' = DOMAIN g
    /\ pc' = "wl_merge"
    /\ UNCHANGED <<err, names, dirs, lib_path, copy_filt_func, lib_filt_func,
                   names0, dirs0, copied_in, copied_libs, delocated_libs,
                   copied_basenames, copied2orig, in_len, rewrites, copies,
                   in_place, lib_path_exists, all_copied, info_dirs,
                   recorded, zipped, run, wheel_dict>>

\* One iteration of the loop over pkg_lib_dict.items() (lines 89-93):
\* "lib_dict[key] += values" on two dicts raises TypeError.
WheelLibsMerge ==
    /\ pc = "wl_merge" /\ err = "none"
    /\ \E key \in todo :
        /\ todo' = todo \ {key}
        /\ IF key \notin DOMAIN wheel_dict
           THEN /\ wheel_dict' = DictSet(wheel_dict, key, lib_dict[key])
                /\ UNCHANGED err
           ELSE /\ err' = "TypeError"
                /\ UNCHANGED wheel_dict
    /\ UNCHANGED <<pc, names, dirs, args, copied_in, lib_dict, copied_libs,
                   delocated_libs, copied_basenames, copied2orig, in_len,
                   rewrites, copies, in_place, pkgs, lib_path_exists,
                   all_copied, info_dirs, recorded, zipped, run>>

\* The loop over the items is over: on to the next package.
WheelLibsMerged ==
    /\ pc = "wl_merge" /\ err = "none" /\ todo = {}
    /\ pc' = "wl_loop"
    /\ UNCHANGED <<err, names, dirs, args, copied_in, lib_dict, copied_libs,
                   delocated_libs, copied_basenames, todo, copied2orig,
                   in_len, rewrites, copies, wheel>>

\* return lib_dict (line 94)
WheelLibsReturn ==
    /\ pc = "wl_loop" /\ err = "none" /\ pkgs = {}
    /\ pc' = "wl_done"
    /\ UNCHANGED <<err, names, dirs, args, copied_in, lib_dict, copied_libs,
                   delocated_libs, copied_basenames, todo, copied2orig,
                   in_len, rewrites, copies, wheel>>

NextWheelLibs ==
    \/ WheelLibsScan
    \/ WheelLibsMerge
    \/ WheelLibsMerged
    \/ WheelLibsReturn

WheelLibsSpec == InitWheelLibs /\ [][NextWheelLibs]_vars

(***************************************************************************)
(* Vocabulary of the properties.                                           *)
(***************************************************************************)
LibDir == realpath(lib_path)

\* What the loader makes of '@loader_path/...' recorded in file
ResolveFrom(file, ref) == realpath(dirname(file) \o Tail(ref))

\* delocate_tree_libs has run both its loops and is about to return
TreeDone == pc = "relink" /\ todo = {} /\ err = "none"

\* the library lies in the tree of root_path
InsideRoot(l) == Under(l, realpath(tree_path))

Opaque(ref) == StartsWithAt(ref[1])

\* the copy filter of the call rejects the library
Rejected(l) == copy_filt_func = "filter_system_libs" /\ ~ filter_system_libs(l)

(***************************************************************************)
(* C1.  delocate_tree_libs raises its DelocationError (two libraries to    *)
(* copy with one basename, or a library to copy that is not on disk) from  *)
(* the loop that only tests: at the raise nothing was copied into lib_path *)
(* and no reference of any file was rewritten, whatever the order in which *)
(* the keys of the graph were visited.                                     *)
(***************************************************************************)
C1_RaiseBeforeMutation ==
    (pc = "plan" /\ err \in {"PlanConflict", "MissingLibrary"})
        => /\ copies = {}
           /\ rewrites = {}
           /\ names = names0

\* a raise after another library had already been accepted for copying
C1_Witness ==
    /\ pc = "plan"
    /\ err \in {"PlanConflict", "MissingLibrary"}
    /\ DOMAIN copied_libs # {}

(***************************************************************************)
(* C2.  When delocate_path aborts on a basename collision or on a library  *)
(* that is not on disk, the file system is as it was before the call: no   *)
(* lib_path created, no file copied, no reference rewritten.               *)
(***************************************************************************)
C2_AbortLeavesFileSystem ==
    (err \in {"PlanConflict", "MissingLibrary", "CopyError"})
        => (names = names0 /\ dirs = dirs0)

(***************************************************************************)
(* C3.  copy_recurse terminates: no key of the index is ever removed, a    *)
(* pass that sends the loop round again has added a key, the pass that     *)
(* adds none is the last, and so every call ends, by a return or by an     *)
(* exception, cyclic references between the libraries included.            *)
(***************************************************************************)
C3_ClosureTerminates ==
    /\ [][DOMAIN copied_libs \subseteq DOMAIN copied_libs']_vars
    /\ [][(pc = "pass" /\ pc' = "recurse")
             => Cardinality(DOMAIN copied_libs) > in_len]_vars
    /\ [][(pc = "pass" /\ pc' = "done")
             => Cardinality(DOMAIN copied_libs) = in_len]_vars
    /\ <>(pc = "done" \/ err # "none")

\* the loop returned after closing over two libraries that need each other
C3_Witness ==
    /\ pc = "done"
    /\ X \in names0[Z] /\ Z \in names0[X]
    /\ {X, Z} \subseteq DOMAIN copied_libs

(***************************************************************************)
(* C4.  The returned index never lists as a depender the path inside       *)
(* lib_path of a copied library: such a depender is recorded under the     *)
(* identity the library had before the copy, however lib_path is spelt.    *)
(***************************************************************************)
C4_DependersAreOriginals ==
    pc = "done" =>
        \A k \in DOMAIN copied_libs :
            \A d \in Dependers(copied_libs[k]) :
                \A c \in DOMAIN copied_libs : d # CopyDest(c, lib_path)

\* the same statement for the callers that pass a canonical absolute path
C4_CanonicalLibPath ==
    lib_path = LibDirAbs => C4_DependersAreOriginals

(***************************************************************************)
(* C5.  When delocate_tree_libs has done its work without an error, for    *)
(* every file and every library of the graph it depends on: a library      *)
(* outside root_path has a copy at lib_path/basename, and the file records *)
(* '@loader_path/<from its directory to lib_path>/<basename>', which       *)
(* resolves to that copy; a library inside root_path was not copied, and   *)
(* the file records '@loader_path/<from its directory to the library>',    *)
(* which resolves to the library itself.                                   *)
(***************************************************************************)
C5_Outside(k, d) ==
    /\ CopyDest(k, lib_path) \in DOMAIN names
    /\ CopiedName(d, k, lib_path) \in names[d]
    /\ ResolveFrom(d, CopiedName(d, k, lib_path)) = CopyDest(k, lib_path)

C5_Inside(k, d) ==
    /\ \A c \in copies : c.src # k
    /\ LocalName(d, k) \in names[d]
    /\ ResolveFrom(d, LocalName(d, k)) = k

C5_TreeResult ==
    TreeDone =>
        \A k \in DOMAIN lib_dict : \A d \in DOMAIN lib_dict[k] :
            ~ Opaque(k) =>
                IF InsideRoot(k) THEN C5_Inside(k, d) ELSE C5_Outside(k, d)

\* the statement of C5 away from the names that begin with two dots
C5_ExceptDotDotNames ==
    TreeDone =>
        \A k \in DOMAIN lib_dict : \A d \in DOMAIN lib_dict[k] :
            (~ Opaque(k) /\ k # Q) =>
                IF InsideRoot(k) THEN C5_Inside(k, d) ELSE C5_Outside(k, d)

(***************************************************************************)
(* C6.  Every rewrite replaces the reference string that the depending     *)
(* file records for the library, graph[R][D]; the string is in the file at *)
(* that moment, so the rewrite succeeds, also when the string is another   *)
(* spelling of the library than its canonical path.                        *)
(***************************************************************************)
C6_RewritesRecordedReference ==
    \A r \in rewrites : r.old = r.recorded /\ r.ok

(***************************************************************************)
(* C7.  After delocate_path has returned, no file of lib_path records a    *)
(* reference that the copy filter accepts and that does not begin with     *)
(* '@', and every '@loader_path/<basename>' written by a closure pass      *)
(* resolves, from the directory of its file, to a file in lib_path.        *)
(***************************************************************************)
C7_NoHostReferenceLeft ==
    pc = "done" =>
        \A f \in DOMAIN names : Under(f, LibDir) =>
            \A n \in names[f] :
                Opaque(n) \/ ~ ApplyCopyFilt(copy_filt_func, LibKey(n))

C7_ClosureReferencesResolve ==
    pc = "done" =>
        \A r \in rewrites : r.stage = "closure" =>
            /\ ResolveFrom(r.file, r.new) \in DOMAIN names
            /\ Under(ResolveFrom(r.file, r.new), LibDir)

C7_BundleSelfContained ==
    C7_NoHostReferenceLeft /\ C7_ClosureReferencesResolve

(***************************************************************************)
(* C8.  When every library of the graph that is not opaque lies inside     *)
(* root_path, the planner plans no copy and relinks exactly these          *)
(* libraries, and delocate_tree_libs copies nothing.                       *)
(***************************************************************************)
NonOpaqueKeys == {k \in DOMAIN lib_dict : ~ Opaque(k)}

C8_NoExternalNoCopy ==
    (/\ pc \in {"copy", "relink"}
     /\ \A k \in NonOpaqueKeys : InsideRoot(k))
        => /\ DOMAIN copied_libs = {}
           /\ copies = {}
           /\ delocated_libs = NonOpaqueKeys

\* the statement of C8 away from the names that begin with two dots
C8_ExceptDotDotNames ==
    (/\ pc \in {"copy", "relink"}
     /\ \A k \in NonOpaqueKeys : InsideRoot(k) /\ k # Q)
        => /\ DOMAIN copied_libs = {}
           /\ copies = {}
           /\ delocated_libs = NonOpaqueKeys

(***************************************************************************)
(* C9.  A reference that begins with '@' is left alone by every stage: the *)
(* scanner keys it verbatim, the planner puts it in neither set, nothing   *)
(* copies it, no rewrite replaces it, it is no key of the index, and the   *)
(* files that recorded it before the call record it still.                 *)
(***************************************************************************)
C9_OpaqueLeftAlone ==
    /\ \A k \in DOMAIN lib_dict : \A d \in DOMAIN lib_dict[k] :
            /\ Opaque(lib_dict[k][d]) => k = lib_dict[k][d]
            /\ Opaque(k) => lib_dict[k][d] = k
    /\ \A k \in DOMAIN copied_libs : ~ Opaque(k)
    /\ \A k \in delocated_libs : ~ Opaque(k)
    /\ \A c \in copies : ~ Opaque(c.src)
    /\ \A r \in rewrites : ~ Opaque(r.old) /\ ~ Opaque(r.key)
    /\ \A f \in DOMAIN names0 : \A n \in names0[f] :
            Opaque(n) => n \in names[f]

\* the call returned on a tree whose file and whose copied library both
\* record an opaque reference, met by the tree pass and by a closure pass
C9_Witness ==
    /\ pc = "done"
    /\ Rpath \in names0[A] /\ Rpath \in names0[X]
    /\ X \in DOMAIN copied_libs
    /\ Rpath \in names[A] /\ Rpath \in names[CopyDest(X, lib_path)]

(***************************************************************************)
(* C10.  A library that the copy filter rejects is untouched by the whole  *)
(* of delocate_path: never copied, no reference to it rewritten in the     *)
(* tree pass or in a closure pass, never a key of the index.               *)
(***************************************************************************)
C10_RejectedUntouched ==
    /\ \A k \in DOMAIN copied_libs : ~ Rejected(k)
    /\ \A k \in delocated_libs : ~ Rejected(k)
    /\ \A c \in copies : ~ Rejected(c.src)
    /\ \A r \in rewrites : ~ Rejected(r.key) /\ ~ Rejected(LibKey(r.old))
    /\ \A f \in DOMAIN names0 : \A n \in names0[f] :
            Rejected(LibKey(n)) => n \in names[f]

\* the call returned with a copy made, on a tree where the file of the tree
\* and the copied library both depend on a rejected library
C10_Witness ==
    /\ pc = "done"
    /\ copy_filt_func = "filter_system_libs"
    /\ S \in names0[A] /\ S \in names0[X]
    /\ X \in DOMAIN copied_libs
    /\ S \in names[A] /\ S \in names[CopyDest(X, lib_path)]

(***************************************************************************)
(* C11.  The second call of delocate_wheel, in place, on the archive that  *)
(* a first call processed without an error, raises the conflict of a       *)
(* library directory that was there or does nothing: it copies no library, *)
(* a library the first call put in a library directory least of all, its   *)
(* index stays empty, it does not rewrite RECORD and does not repack.      *)
(***************************************************************************)
C11_SecondRunIsNoOp ==
    run = 2 =>
        /\ err \in {"none", "PreexistingTarget"}
        /\ copies = {}
        /\ DOMAIN copied_libs = {}
        /\ DOMAIN all_copied = {}
        /\ ~ recorded
        /\ ~ zipped

\* the statement of C11 for the archives in which no binary records a
\* library through a symbolic link
C11_ExceptLinkedNames ==
    (\A f \in DOMAIN names0 : Xlink \notin names0[f]) => C11_SecondRunIsNoOp

(***************************************************************************)
(* C12.  When delocate_path returns an empty index for a lib_path that was *)
(* not there before the call, lib_path is not there after the call.        *)
(***************************************************************************)
C12_PathLeavesNoLibDir ==
    (/\ pc = "done" /\ err = "none"
     /\ DOMAIN copied_libs = {}
     /\ LibDir \notin dirs0)
        => LibDir \notin dirs

(***************************************************************************)
(* C12, as the code divides the work.  delocate_path creates lib_path and  *)
(* returns with it in place, empty when nothing was copied; it is          *)
(* delocate_wheel that leaves no library directory behind: once it has     *)
(* dealt with a package for which nothing was copied and whose library     *)
(* directory was not in the archive, that directory is not in the tree.    *)
(***************************************************************************)
C12_WheelLeavesNoLibDir ==
    pc \in {"packages", "zip", "wheel_done"} =>
        \A p \in find_package_dirs \ pkgs :
            LET ld == realpath(pjoin(p, lib_sdir))
            IN  (/\ ld \notin dirs0
                 /\ \A c \in copies : dirname(c.dst) # ld)
                    => ld \notin dirs

\* the first call returned on an archive without library directory whose
\* only reference is to a system library that the copy filter rejects
C12_Witness ==
    /\ pc = "wheel_done" /\ run = 1
    /\ copy_filt_func = "filter_system_libs"
    /\ names0[A] = {S}
    /\ LibDirAbs \notin dirs0
    /\ LibDirAbs \notin dirs
    /\ DOMAIN all_copied = {}

(***************************************************************************)
(* C13.  When delocate_path has returned for a package whose library       *)
(* directory was in the expanded archive: if it copied a library,          *)
(* delocate_wheel raises its DelocationError and no archive is written; if *)
(* it copied nothing, nothing is raised for the package and the directory  *)
(* is kept with what it held.                                              *)
(***************************************************************************)
AfterPathStep == pc = "done" /\ err = "none" /\ (pc' # pc \/ err' # err)

LibDirContentKept ==
    \A x \in DOMAIN names0 \cup dirs0 :
        Under(x, LibDir) => x \in DOMAIN names' \cup dirs'

C13_PreexistingTarget ==
    /\ [][(AfterPathStep /\ lib_path_exists)
             => IF DOMAIN copied_libs # {}
                THEN err' = "PreexistingTarget" /\ ~ zipped'
                ELSE /\ err' = "none"
                     /\ LibDir \in dirs'
                     /\ LibDirContentKept]_vars
    /\ [](err = "PreexistingTarget" => ~ zipped)

(***************************************************************************)
(* C13, with the case the code treats apart.  As above, but when nothing   *)
(* was copied the directory that was in the archive is kept, with what it  *)
(* held, exactly when it holds something: an empty one is removed.         *)
(***************************************************************************)
C13_PreexistingTargetUnlessEmpty ==
    /\ [][(AfterPathStep /\ lib_path_exists)
             => IF DOMAIN copied_libs # {}
                THEN err' = "PreexistingTarget" /\ ~ zipped'
                ELSE /\ err' = "none"
                     /\ LibDir \in dirs' <=> listdir(names, dirs, lib_path) # {}
                     /\ LibDirContentKept]_vars
    /\ [](err = "PreexistingTarget" => ~ zipped)

\* the conflict was raised after a library had been copied next to the
\* helper that the archive held in the library directory
C13_Witness ==
    /\ pc = "done"
    /\ err = "PreexistingTarget"
    /\ H \in DOMAIN names0
    /\ \E c \in copies : dirname(c.dst) = LibDirAbs
    /\ ~ zipped

(***************************************************************************)
(* C14.  The last steps of delocate_wheel.  RECORD is rewritten only once  *)
(* every package has been processed, only when the merged index holds an   *)
(* entry, and before the archive is written; when the call comes to the    *)
(* repacking, RECORD has been rewritten exactly if the merged index holds  *)
(* an entry; and the archive is written only at that last step, and only   *)
(* if the tree is not what the archive held or the output is another file. *)
(***************************************************************************)
C14_FinalSteps ==
    /\ [][(recorded' # recorded /\ run' = run)
             => /\ recorded'
                /\ pc = "packages" /\ pkgs = {}
                /\ DOMAIN all_copied # {}
                /\ ~ zipped /\ ~ zipped']_vars
    /\ [][(pc = "zip" /\ pc' = "wheel_done")
             => /\ recorded <=> DOMAIN all_copied # {}
                /\ zipped' => \/ names # names0
                              \/ dirs # dirs0
                              \/ ~ in_place]_vars
    /\ [][(zipped' /\ ~ zipped) => pc = "zip"]_vars

\* a call in place that copied for both packages, rewrote RECORD, repacked
C14_Witness ==
    /\ pc = "wheel_done" /\ run = 1
    /\ in_place
    /\ recorded /\ zipped
    /\ \E c \in copies : dirname(c.dst) = LibDirAbs
    /\ \E c \in copies : dirname(c.dst) = realpath(<<"pkg2">> \o lib_sdir)

(***************************************************************************)
(* C15.  The graph that tree_libs returns for a package is keyed by        *)
(* canonical identity: a library that is not opaque is keyed by its real   *)
(* path, so the spellings of one file (its path, a symbolic link to it, a  *)
(* relative name) make one key; a depending file appears under its real    *)
(* path only, whatever symbolic links to it the tree holds, and the graph  *)
(* is the one of the tree without these links; each (required, depending)  *)
(* pair keeps one reference string, one that the file records for the      *)
(* library.                                                                *)
(***************************************************************************)
Inspected(start_path) ==
    { f \in RegularFiles(names, start_path) : ApplyLibFilt(lib_filt_func, f) }

C15_CanonicalGraph ==
    pc = "wl_merge" =>
        /\ lib_dict \in GraphsOver(names, RegularFiles(names, tree_path),
                                   lib_filt_func)
        /\ \A k \in DOMAIN lib_dict :
            /\ ~ Opaque(k) => realpath(k) = k
            /\ \A d \in DOMAIN lib_dict[k] :
                /\ d \in Inspected(tree_path)
                /\ lib_dict[k][d] \in names[d]
                /\ LibKey(lib_dict[k][d]) = k
        /\ \A f \in Inspected(tree_path) : \A n \in names[f] :
            /\ LibKey(n) \in DOMAIN lib_dict
            /\ f \in DOMAIN lib_dict[LibKey(n)]

\* the scan of pkg, whose a.so has the alias funny.dylib and records both
\* the library and a symbolic link to it: one key, one depending file
C15_Witness ==
    /\ pc = "wl_merge"
    /\ tree_path = <<"pkg">>
    /\ Funny \in WalkFiles(names, tree_path)
    /\ {X, Xlink} \subseteq names[A]
    /\ X \in DOMAIN lib_dict
    /\ DOMAIN lib_dict[X] = {A}

(***************************************************************************)
(* C16.  When delocate_path has returned the index of a package and no     *)
(* conflict is raised, the merge into the index of the run raises nothing, *)
(* whatever made the entries (the tree pass or the closure passes); the    *)
(* keys of the merged index are the keys it had and the keys of the        *)
(* package, and each entry holds the depending files of both.              *)
(***************************************************************************)
DependersIn(index, k) ==
    IF k \in DOMAIN index THEN Dependers(index[k]) ELSE {}

C16_MergeOfPackages ==
    [][(AfterPathStep /\ ~ PreexistingConflict(copied_libs, lib_path_exists))
          => /\ err' = "none"
             /\ DOMAIN all_copied' = DOMAIN all_copied \cup DOMAIN copied_libs
             /\ \A k \in DOMAIN all_copied' :
                    Dependers(all_copied'[k]) =
                        DependersIn(all_copied, k)
                        \cup DependersIn(copied_libs, k)]_vars

(***************************************************************************)
(* C17.  wheel_libs raises nothing and returns the merge of the graphs of  *)
(* the packages of the archive: the keys are the libraries that some       *)
(* inspected file of some package records, each entry maps every such file *)
(* of every package to a reference it records, also when two packages      *)
(* depend on one library, and the result is empty when no inspected file   *)
(* records a reference.                                                    *)
(***************************************************************************)
C17_WheelLibsGraph ==
    /\ pc \in {"wl_loop", "wl_merge", "wl_done"} => err = "none"
    /\ pc = "wl_done" =>
        /\ wheel_dict \in
               GraphsOver(names,
                          UNION {WalkFiles(names, p) : p \in find_package_dirs},
                          lib_filt_func)
        /\ (\A p \in find_package_dirs : \A f \in Inspected(p) :
                names[f] = {}) => wheel_dict = EmptyDict

(***************************************************************************)
(* C18.  A pass of _copy_required that adds no entry to the index but      *)
(* enlarges the depending files of an entry is not the last: the loop of   *)
(* copy_recurse does not return at the end of such a pass.                 *)
(***************************************************************************)
NoNewEntry == DOMAIN copied_libs = DOMAIN copied_in

SomeEntryEnlarged ==
    \E k \in DOMAIN copied_in \cap DOMAIN copied_libs :
        Dependers(copied_libs[k]) # Dependers(copied_in[k])

C18_EnlargingPassRunsAgain ==
    [][(pc = "pass" /\ pc' = "done") => ~ (NoNewEntry /\ SomeEntryEnlarged)]_vars

(***************************************************************************)
(* C18, as the loop is written.  The pass that adds no entry to the index  *)
(* is the last, whether or not it enlarged the depending files of an       *)
(* entry: the loop returns at its end, and it goes round again exactly     *)
(* after a pass that added an entry.                                       *)
(***************************************************************************)
C18_NoNewEntryPassIsLast ==
    [][(pc = "pass" /\ pc' # "pass")
          => /\ NoNewEntry => pc' = "done"
             /\ ~ NoNewEntry => pc' = "recurse"]_vars

\* the loop returned after a pass that only enlarged an entry
C18_Witness ==
    /\ pc = "done"
    /\ NoNewEntry
    /\ SomeEntryEnlarged

(***************************************************************************)
(* C19.  When a closure pass meets a required library that already has an  *)
(* entry in the index, made by the tree pass or by an earlier closure      *)
(* pass, and its references are rewritten, the step raises nothing and the *)
(* entry becomes the union of the depending files it held and the          *)
(* translated depending files just observed; the same observation merged   *)
(* once more would add nothing.                                            *)
(***************************************************************************)
C19_MergeIntoEntry ==
    [][\A r \in todo \ todo' :
          (/\ pc = "pass"
           /\ r \in DOMAIN copied_libs
           /\ ApplyCopyFilt(copy_filt_func, r) /\ ~ Opaque(r)
           /\ err' # "RewriteError")
          => LET procd == {GetOrSelf(copied2orig, d) :
                              d \in DOMAIN lib_dict[r]}
             IN  /\ err' = "none"
                 /\ Dependers(copied_libs'[r]) =
                        Dependers(copied_libs[r]) \cup procd
                 /\ Dependers(copied_libs'[r]) \cup procd =
                        Dependers(copied_libs'[r])]_vars


(***************************************************************************)
(* C20.  When the planner has classified the graph, a library that is not  *)
(* opaque is in the set to copy exactly when it lies outside root_path,    *)
(* and a library inside root_path is in the set to relink and is never     *)
(* copied, also when the first component of its path from root_path is a   *)
(* name that merely begins with two dots.                                  *)
(***************************************************************************)
C20_PlannerBoundary ==
    pc \in {"copy", "relink"} =>
        \A k \in NonOpaqueKeys :
            /\ k \in DOMAIN copied_libs <=> ~ InsideRoot(k)
            /\ InsideRoot(k) =>
                   /\ k \in delocated_libs
                   /\ \A c \in copies : c.src # k

(***************************************************************************)
(* C21.  In every state of delocate_path, tree pass and closure passes     *)
(* alike, two different keys of the index never have one basename, so no   *)
(* copy into lib_path lands on the copy of another library, nor on a file  *)
(* that lib_path held before the call.                                     *)
(***************************************************************************)
C21_DistinctBasenames ==
    /\ \A k1, k2 \in DOMAIN copied_libs :
            basename(k1) = basename(k2) => k1 = k2
    /\ \A c1, c2 \in copies : c1.dst = c2.dst => c1.src = c2.src
    /\ \A c \in copies : c.dst \notin DOMAIN names0

(***************************************************************************)
(* C22.  When delocate_wheel has returned and a binary of the tree records *)
(* other references than in the archive it expanded, also after a run that *)
(* only relinked libraries of the tree and copied nothing: the archive was *)
(* written, so that no rewrite is thrown away with the working directory,  *)
(* and RECORD was rewritten before, so that no archive is written whose    *)
(* manifest is older than its binaries.                                    *)
(***************************************************************************)
SomeBinaryRewritten ==
    \E f \in DOMAIN names0 : names[f] # names0[f]

C22_RewritesReachArchive ==
    /\ (pc = "wheel_done" /\ err = "none" /\ SomeBinaryRewritten) => zipped
    /\ (zipped /\ SomeBinaryRewritten) => recorded

(***************************************************************************)
(* C23.  Whatever delocate_wheel raises and wherever (two libraries with   *)
(* one basename, a library that is not on disk, a library directory that   *)
(* was in the archive, a tree without its one dist-info directory, a       *)
(* rewrite or a copy that fails, a merge that fails, in the first package  *)
(* or in a later one), no archive has been written: writing it is the last *)
(* step, taken after every package and after the rewriting of RECORD.      *)
(***************************************************************************)
C23_RaiseWritesNothing ==
    /\ err # "none" => ~ zipped
    /\ zipped => pc = "wheel_done" /\ pkgs = {}

\* rewrite_record raised after both packages had been delocated
C23_Witness ==
    /\ err = "ManifestShapeError"
    /\ run = 1
    /\ \E c \in copies : dirname(c.dst) = LibDirAbs
    /\ \E c \in copies : dirname(c.dst) = realpath(<<"pkg2">> \o lib_sdir)
    /\ ~ zipped

====
